---- MODULE Spec2Model ----
(***************************************************************************)
(* Model of the GLSP client layout engine (VBoxLayouterExt) and of the    *)
(* geometry commands (ResizeElementsCommand, AlignElementsCommand).       *)
(*                                                                         *)
(* Numbers.  The code computes with IEEE doubles.  The model computes with *)
(* exact rationals, stored as integers counted in units of 1/Scale: the    *)
(* number 10 of the program is the integer 10 * Scale of the model.  Scale *)
(* is chosen so that every division the code performs on the modelled      *)
(* inputs (0.5 * d, h / grabbingChildren, sum / length, w / paddingFactor) *)
(* is exact; rounding of doubles is outside the model.                     *)
(***************************************************************************)
EXTENDS Integers, Sequences, FiniteSets, TLC

\* ------------------------------------------------------------------ bounds
MaxChildren == 3
MaxIds == 3
MaxMarkers == 3

\* ------------------------------------------------------------- arithmetic
RECURSIVE Fact(_)
Fact(n) == IF n <= 1 THEN 1 ELSE n * Fact(n - 1)

MaxOf(a, b) == IF a >= b THEN a ELSE b
MinOf(a, b) == IF a <= b THEN a ELSE b

Scale == 2 * Fact(MaxOf(MaxChildren, MaxIds) + 1)
U(n) == n * Scale
Half(a) == a \div 2

\* {}: an object without properties
EmptyRecord == [k \in {} |-> FALSE]

\* -------------------------------------------------------------- variables
VARIABLES
    container,      \* the layout container element: bounds, layoutData, layoutOptions
    children,       \* container.children: per child layoutable flag and layoutOptions
    containerData,  \* layouter.getBoundsData(container)
    childData,      \* layouter.getBoundsData(child), by child position
    locals,         \* the constants layout() computed in its last run
    phase,          \* "ready" before layout() ran, "done" after; "idle" when no pass is modelled
    action,         \* the ResizeElementsAction / AlignElementsAction the command was built with
    selection,      \* selectionService.getSelectedElementIDs()
    root,           \* context.root: the elements of the model index by id
    restricted,     \* ids of the elements whose new position the movement restrictor rejects
    targets,        \* the elements getActionElements returned to the last execute()
    dispatched,     \* the calls actionDispatcher.dispatchAll received, oldest first
    returned,       \* <<r>> when the last execute/undo/redo returned r, <<>> before any call
    cmdState,       \* "created", "executed", "undone", "redone"; "idle" when no command is modelled
    markerRoot,     \* the model root handed to the marker navigator: its child nodes in order
    current,        \* <<e>> when the navigator is called with current element e, <<>> without
    predicate,      \* the marker predicate of the call
    markerComparator, \* the comparator class bound to SModelElementComparator
    found,          \* <<r>> when the last next/previous returned r; r is <<m>> or <<>> (undefined)
    navState,       \* "ready" before the call, "next" / "previous" after it; "idle" otherwise
    history,        \* the calls made so far, oldest first: [current, found] of each call
    factory,        \* the create function under test: "resize" or "align"; "none" otherwise
    createOptions,  \* the options object handed to the create function
    created         \* <<a>> when the create function returned action a, <<>> before the call

layoutVars == <<container, children, containerData, childData, locals, phase>>
commandVars == <<action, selection, root, restricted, targets, dispatched, returned, cmdState>>
navVars == <<markerRoot, current, predicate, markerComparator, found, navState, history>>
createVars == <<factory, createOptions, created>>
vars == <<container, children, containerData, childData, locals, phase,
          action, selection, root, restricted, targets, dispatched, returned, cmdState,
          markerRoot, current, predicate, markerComparator, found, navState, history,
          factory, createOptions, created>>

\* --------------------------------------------------------- sprotty values
Bounds(x, y, w, h) == [defined |-> TRUE, x |-> x, y |-> y, width |-> w, height |-> h]
UndefinedBounds == [defined |-> FALSE, x |-> 0, y |-> 0, width |-> 0, height |-> 0]
EMPTY_BOUNDS == Bounds(0, 0, U(-1), U(-1))

isValidDimension(d) == d.width >= 0 /\ d.height >= 0
isLayoutableChild(child) == child.layoutable
isLayoutDataAware(element) == element.layoutData.present

getDefaultLayoutOptions ==
    [resizeContainer |-> TRUE,
     paddingTop |-> U(5), paddingBottom |-> U(5), paddingLeft |-> U(5), paddingRight |-> U(5),
     paddingFactor |-> 1, vGap |-> U(1), hAlign |-> "center",
     minWidth |-> 0, minHeight |-> 0, hGrab |-> FALSE, vGrab |-> FALSE]

\* { ...a, ...b }: the fields of b win
spread(a, b) == [k \in DOMAIN a \cup DOMAIN b |-> IF k \in DOMAIN b THEN b[k] ELSE a[k]]

getLayoutOptions(element) == spread(getDefaultLayoutOptions, element.layoutOptions)
getChildLayoutOptions(child, containerOptions) == spread(containerOptions, child.layoutOptions)

\* ------------------------------------------------------- getChildrenSize
RECURSIVE SumOver(_, _)
SumOver(S, f) == IF S = {} THEN 0 ELSE LET i == CHOOSE j \in S : TRUE IN f[i] + SumOver(S \ {i}, f)

SumHeightsOf(kids, data) ==
    SumOver({i \in 1..Len(kids) : isLayoutableChild(kids[i]) /\ data[i].bounds.defined
                                    /\ isValidDimension(data[i].bounds)},
            [i \in 1..Len(kids) |-> data[i].bounds.height])

RECURSIVE ChildrenSizeFrom(_, _, _, _, _, _, _)
ChildrenSizeFrom(i, kids, data, vGap, maxWidth, maxHeight, isFirst) ==
    IF i > Len(kids) THEN [width |-> maxWidth, height |-> maxHeight]
    ELSE IF isLayoutableChild(kids[i]) /\ data[i].bounds.defined /\ isValidDimension(data[i].bounds)
         THEN ChildrenSizeFrom(i + 1, kids, data, vGap,
                  MaxOf(maxWidth, data[i].bounds.width),
                  maxHeight + data[i].bounds.height + (IF isFirst THEN 0 ELSE vGap),
                  FALSE)
         ELSE ChildrenSizeFrom(i + 1, kids, data, vGap, maxWidth, maxHeight, isFirst)

\* mutant: a gap is added for every child, skipped or not
getChildrenSize_GapPerChild(kids, data, containerOptions) ==
    LET r == ChildrenSizeFrom(1, kids, data, containerOptions.vGap, U(-1), 0, TRUE)
    IN IF Len(kids) = 0 THEN r
       ELSE [r EXCEPT !.height = SumHeightsOf(kids, data) + (Len(kids) - 1) * containerOptions.vGap]

getChildrenSize(kids, data, containerOptions) ==
    ChildrenSizeFrom(1, kids, data, containerOptions.vGap, U(-1), 0, TRUE)

\* ------------------------------------------------ getFixedContainerBounds
getFixedContainerBounds(cont) ==
    IF isLayoutDataAware(cont)
    THEN IF cont.layoutData.hasPrefSize
         THEN [cont.bounds EXCEPT !.width = cont.layoutData.prefSize.width,
                                  !.height = cont.layoutData.prefSize.height]
         ELSE [cont.bounds EXCEPT !.width = 0, !.height = 0]
    ELSE EMPTY_BOUNDS

\* ----------------------------------------------- getFinalContainerBounds
\* mutant: the paddings are not added to the children's extent
getFinalContainerBounds_NoPadding(cont, options, maxWidth, maxHeight) ==
    LET size == IF isLayoutDataAware(cont) /\ cont.layoutData.hasPrefSize
                THEN cont.layoutData.prefSize
                ELSE [width |-> options.minWidth, height |-> options.minHeight]
    IN Bounds(cont.bounds.x, cont.bounds.y, MaxOf(size.width, maxWidth), MaxOf(size.height, maxHeight))

getFinalContainerBounds(cont, options, maxWidth, maxHeight) ==
    LET size == IF isLayoutDataAware(cont) /\ cont.layoutData.hasPrefSize
                THEN cont.layoutData.prefSize
                ELSE [width |-> options.minWidth, height |-> options.minHeight]
    IN Bounds(cont.bounds.x, cont.bounds.y,
              MaxOf(size.width, maxWidth + options.paddingLeft + options.paddingRight),
              MaxOf(size.height, maxHeight + options.paddingTop + options.paddingBottom))

\* ------------------------------------------------------------ layoutChild
getDx(hAlign, bounds, maxWidth) ==
    CASE hAlign = "left" -> 0
      [] hAlign = "center" -> Half(maxWidth - bounds.width)
      [] hAlign = "right" -> maxWidth - bounds.width

\* VBoxLayouter.layoutChild of sprotty, called as super.layoutChild; the
\* child's own position equals the position in its bounds data
superLayoutChild(bounds, childOptions, containerOptions, currentOffset, maxWidth) ==
    [data |-> [bounds |-> Bounds(containerOptions.paddingLeft + getDx(childOptions.hAlign, bounds, maxWidth),
                                 currentOffset.y, bounds.width, bounds.height),
               boundsChanged |-> TRUE],
     offset |-> [x |-> currentOffset.x,
                 y |-> currentOffset.y + bounds.height + containerOptions.vGap]]

\* mutant: hGrab adds the usable width to the child's width
layoutChild_HGrabAdds(bounds, childOptions, containerOptions, currentOffset, maxWidth, grabHeight, grabbingChildren) ==
    LET base == superLayoutChild(bounds, childOptions, containerOptions, currentOffset, maxWidth)
        afterH == IF childOptions.hGrab
                  THEN [bounds |-> [base.data.bounds EXCEPT !.width = @ + maxWidth], boundsChanged |-> TRUE]
                  ELSE base.data
        grabs == childOptions.vGrab /\ grabHeight # 0 /\ grabbingChildren # 0
        height == afterH.bounds.height + (grabHeight \div grabbingChildren)
    IN IF grabs
       THEN [data |-> [bounds |-> [afterH.bounds EXCEPT !.height = height], boundsChanged |-> TRUE],
             offset |-> [x |-> currentOffset.x, y |-> currentOffset.y + height]]
       ELSE [data |-> afterH, offset |-> base.offset]

layoutChild(bounds, childOptions, containerOptions, currentOffset, maxWidth, grabHeight, grabbingChildren) ==
    LET base == superLayoutChild(bounds, childOptions, containerOptions, currentOffset, maxWidth)
        afterH == IF childOptions.hGrab
                  THEN [bounds |-> [base.data.bounds EXCEPT !.width = maxWidth], boundsChanged |-> TRUE]
                  ELSE base.data
        grabs == childOptions.vGrab /\ grabHeight # 0 /\ grabbingChildren # 0
        height == afterH.bounds.height + (grabHeight \div grabbingChildren)
    IN IF grabs
       THEN [data |-> [bounds |-> [afterH.bounds EXCEPT !.height = height], boundsChanged |-> TRUE],
             offset |-> [x |-> currentOffset.x, y |-> currentOffset.y + height]]
       ELSE [data |-> afterH, offset |-> base.offset]

\* --------------------------------------------------------- layoutChildren
RECURSIVE LayoutChildrenFrom(_, _, _, _, _, _, _, _)
LayoutChildrenFrom(i, kids, data, containerOptions, currentOffset, maxWidth, grabHeight, grabbingChildren) ==
    IF i > Len(kids) THEN [data |-> data, offset |-> currentOffset]
    ELSE IF isLayoutableChild(kids[i]) /\ data[i].bounds.defined /\ isValidDimension(data[i].bounds)
         THEN LET r == layoutChild(data[i].bounds, getChildLayoutOptions(kids[i], containerOptions),
                                   containerOptions, currentOffset, maxWidth, grabHeight, grabbingChildren)
              IN LayoutChildrenFrom(i + 1, kids, [data EXCEPT ![i] = r.data], containerOptions,
                                    r.offset, maxWidth, grabHeight, grabbingChildren)
         ELSE LayoutChildrenFrom(i + 1, kids, data, containerOptions, currentOffset,
                                 maxWidth, grabHeight, grabbingChildren)

layoutChildren(kids, data, containerOptions, maxWidth, maxHeight, grabHeight, grabbingChildren) ==
    LayoutChildrenFrom(1, kids, data, containerOptions,
        [x |-> containerOptions.paddingLeft + Half(maxWidth - (maxWidth \div containerOptions.paddingFactor)),
         y |-> containerOptions.paddingTop + Half(maxHeight - (maxHeight \div containerOptions.paddingFactor))],
        maxWidth, grabHeight, grabbingChildren)

\* ----------------------------------------------------------------- layout
\* mutant: the padding is not subtracted from the fixed size
usableSize_NoPadding(resizeContainer, paddingFactor, fixed, padding, childrenExtent) ==
    paddingFactor * (IF resizeContainer THEN MaxOf(fixed, childrenExtent) ELSE MaxOf(0, fixed))

\* mutant: the children's extent is used whatever resizeContainer says
usableSize_AlwaysResize(resizeContainer, paddingFactor, fixed, padding, childrenExtent) ==
    paddingFactor * MaxOf(fixed - padding, childrenExtent)

usableSize(resizeContainer, paddingFactor, fixed, padding, childrenExtent) ==
    paddingFactor * (IF resizeContainer
                     THEN MaxOf(fixed - padding, childrenExtent)
                     ELSE MaxOf(0, fixed - padding))

countGrabbing(kids, options) ==
    Cardinality({i \in 1..Len(kids) : getChildLayoutOptions(kids[i], options).vGrab})

\* mutant: a usable size of zero commits too
commits_NonNegative(maxWidth, maxHeight) == maxWidth >= 0 /\ maxHeight >= 0

commits(maxWidth, maxHeight) == maxWidth > 0 /\ maxHeight > 0

layout ==
    /\ phase = "ready"
    /\ LET options == getLayoutOptions(container)
           childrenSize == getChildrenSize(children, childData, options)
           fixedSize == getFixedContainerBounds(container)
           maxWidth == usableSize(options.resizeContainer, options.paddingFactor, fixedSize.width,
                                  options.paddingLeft + options.paddingRight, childrenSize.width)
           maxHeight == usableSize(options.resizeContainer, options.paddingFactor, fixedSize.height,
                                   options.paddingTop + options.paddingBottom, childrenSize.height)
           grabHeight == maxHeight - childrenSize.height
           grabbingChildren == countGrabbing(children, options)
           placed == layoutChildren(children, childData, options, maxWidth, maxHeight,
                                    grabHeight, grabbingChildren)
       IN /\ locals' = [childrenSize |-> childrenSize, maxWidth |-> maxWidth, maxHeight |-> maxHeight,
                        grabHeight |-> grabHeight, grabbingChildren |-> grabbingChildren]
          /\ IF commits(maxWidth, maxHeight)
             THEN /\ childData' = placed.data
                  /\ containerData' = [bounds |-> getFinalContainerBounds(container, options,
                                                      childrenSize.width, childrenSize.height),
                                       boundsChanged |-> TRUE]
             ELSE UNCHANGED <<childData, containerData>>
    /\ phase' = "done"
    /\ UNCHANGED <<container, children>>
    /\ UNCHANGED <<commandVars, navVars, createVars>>

\* ------------------------------------------------------- layout: inputs
SeqsUpTo(S, n) == UNION {[1..k -> S] : k \in 0..n}

NoGrab == EmptyRecord
VGrab == [vGrab |-> TRUE]
HGrab == [hGrab |-> TRUE]

\* a child and the bounds the layouter holds for it when the pass starts
ChildKinds ==
    { [layoutable |-> TRUE,  layoutOptions |-> NoGrab, bounds |-> Bounds(0, 0, U(10), U(10))],
      [layoutable |-> TRUE,  layoutOptions |-> HGrab,  bounds |-> Bounds(0, 0, U(30), U(20))],
      [layoutable |-> TRUE,  layoutOptions |-> VGrab,  bounds |-> Bounds(0, 0, U(20), U(30))],
      [layoutable |-> TRUE,  layoutOptions |-> VGrab,  bounds |-> UndefinedBounds],
      [layoutable |-> TRUE,  layoutOptions |-> NoGrab, bounds |-> EMPTY_BOUNDS],
      [layoutable |-> FALSE, layoutOptions |-> NoGrab, bounds |-> Bounds(0, 0, U(40), U(10))] }

Paddings == { [paddingTop |-> 0, paddingBottom |-> 0, paddingLeft |-> 0, paddingRight |-> 0],
              [paddingTop |-> U(5), paddingBottom |-> U(5), paddingLeft |-> U(5), paddingRight |-> U(5)] }

MinSizes == { [minWidth |-> 0, minHeight |-> 0], [minWidth |-> U(45), minHeight |-> U(45)] }

ContainerOptions ==
    { [k \in {"resizeContainer", "paddingFactor", "vGap", "hAlign"} \cup DOMAIN p \cup DOMAIN m |->
          CASE k = "resizeContainer" -> rc
            [] k = "paddingFactor" -> pf
            [] k = "vGap" -> gap
            [] k = "hAlign" -> IF rc THEN "center" ELSE "left"
            [] k \in DOMAIN p -> p[k]
            [] OTHER -> m[k]] :
      rc \in BOOLEAN, pf \in {1, 2}, gap \in {0, U(5)}, p \in Paddings, m \in MinSizes }

NoSize == [width |-> 0, height |-> 0]
LayoutDatas ==
    { [present |-> FALSE, hasPrefSize |-> FALSE, prefSize |-> NoSize],
      [present |-> TRUE,  hasPrefSize |-> FALSE, prefSize |-> NoSize],
      [present |-> TRUE,  hasPrefSize |-> TRUE,  prefSize |-> [width |-> U(50), height |-> U(5)]],
      [present |-> TRUE,  hasPrefSize |-> TRUE,  prefSize |-> [width |-> U(50), height |-> U(60)]],
      [present |-> TRUE,  hasPrefSize |-> TRUE,  prefSize |-> [width |-> U(20), height |-> U(60)]] }

NoLocals == [childrenSize |-> NoSize, maxWidth |-> 0, maxHeight |-> 0,
             grabHeight |-> 0, grabbingChildren |-> 0]

\* ================================================== geometry commands
\* ------------------------------------------------------------- Reduce
RECURSIVE MinSeq(_)
MinSeq(values) == IF Len(values) = 1 THEN values[1] ELSE MinOf(values[1], MinSeq(Tail(values)))

RECURSIVE MaxSeq(_)
MaxSeq(values) == IF Len(values) = 1 THEN values[1] ELSE MaxOf(values[1], MaxSeq(Tail(values)))

RECURSIVE SumSeq(_)
SumSeq(values) == IF values = <<>> THEN 0 ELSE values[1] + SumSeq(Tail(values))

Reduce_min(values) == MinSeq(values)
Reduce_max(values) == MaxSeq(values)
Reduce_avg(values) == SumSeq(values) \div Len(values)
Reduce_first(values) == values[1]
Reduce_last(values) == values[Len(values)]

\* this.action.reductionFunction(...values), the function named by fn
reductionFunction(fn, values) ==
    CASE fn = "min" -> Reduce_min(values)
      [] fn = "max" -> Reduce_max(values)
      [] fn = "avg" -> Reduce_avg(values)
      [] fn = "first" -> Reduce_first(values)
      [] fn = "last" -> Reduce_last(values)

\* ------------------------------------------------------------- Select
Select_all(elements) == elements
\* mutant: the last element is taken instead of the first
Select_first_TakesLast(elements) == <<elements[Len(elements)]>>

Select_first(elements) == <<elements[1]>>
\* mutant: the first element is taken instead of the last
Select_last_TakesFirst(elements) == <<elements[1]>>

Select_last(elements) == <<elements[Len(elements)]>>

selectionFunction(fn, elements) ==
    CASE fn = "all" -> Select_all(elements)
      [] fn = "first" -> Select_first(elements)
      [] fn = "last" -> Select_last(elements)

\* ------------------------------------------------------------ actions
ResizeElementsAction_create(options) ==
    spread([kind |-> "resizeElementAction", dimension |-> "Width", elementIds |-> <<>>], options)

\* mutant: the defaults are spread over the options
AlignElementsAction_create_DefaultsWin(options) ==
    spread(options, [kind |-> "alignElements", elementIds |-> <<>>, alignment |-> "Left",
                     selectionFunction |-> "all"])

AlignElementsAction_create(options) ==
    spread([kind |-> "alignElements", elementIds |-> <<>>, alignment |-> "Left",
            selectionFunction |-> "all"], options)

\* ----------------------------------------------- external collaborators
isResizable(element) == element.resizable
isBoundsAwareMoveable(element) == element.moveable

\* the movement restrictor accepts a delta as it is or rejects it
toValidElementAndBounds(element, bounds, rejected) ==
    IF element.id \in rejected THEN <<>> ELSE <<bounds>>

toValidElementMove(element, move, rejected) ==
    IF element.id \in rejected THEN <<>> ELSE <<move>>

\* -------------------------------------------------- getActionElements
isActionElement(kind, element) ==
    IF kind = "resizeElementAction" THEN isResizable(element) ELSE isBoundsAwareMoveable(element)

RECURSIVE Flatten(_)
Flatten(ss) == IF Len(ss) = 0 THEN <<>> ELSE Head(ss) \o Flatten(Tail(ss))

\* mutant: elements failing the capability predicate are kept
getActionElements_NoPredicate(act, selected, model) ==
    LET elementIDs == IF Len(act.elementIds) = 0 THEN act.elementIds \o selected ELSE act.elementIds
    IN [elementIds |-> elementIDs,
        elements |-> Flatten([i \in 1..Len(elementIDs) |->
                         IF elementIDs[i] \in DOMAIN model THEN <<model[elementIDs[i]]>> ELSE <<>>])]

\* elementIDs is the array of the action itself: the ids pushed into it stay
\* in action.elementIds, which the result returns next to the elements
getActionElements(act, selected, model) ==
    LET elementIDs == IF Len(act.elementIds) = 0 THEN act.elementIds \o selected ELSE act.elementIds
    IN [elementIds |-> elementIDs,
        elements |-> Flatten([i \in 1..Len(elementIDs) |->
                         IF elementIDs[i] \in DOMAIN model
                            /\ isActionElement(act.kind, model[elementIDs[i]])
                         THEN <<model[elementIDs[i]]>> ELSE <<>>])]

\* mutant: a single element is enough
hasSeveralElements_One(elements) == Len(elements) > 0

\* elements.length > 1
hasSeveralElements(elements) == Len(elements) > 1

\* ----------------------------------------------- ResizeElementsCommand
\* a change callback is modelled by the assignments it makes for each element:
\* change[element] holds the fields of the delta that the callback sets
ElementsOf(elements) == {elements[i] : i \in 1..Len(elements)}

Resize_createElementAndBounds(element, change, rejected) ==
    LET bounds == [elementId |-> element.id,
                   newPosition |-> [x |-> element.bounds.x, y |-> element.bounds.y],
                   newSize |-> [width |-> element.bounds.width, height |-> element.bounds.height]]
        changed == [bounds EXCEPT !.newPosition = spread(bounds.newPosition, change[element].newPosition),
                                  !.newSize = spread(bounds.newSize, change[element].newSize)]
    IN toValidElementAndBounds(element, changed, rejected)

dispatchResizeActions(elements, change, rejected) ==
    LET elementAndBounds == Flatten([i \in 1..Len(elements) |->
                                Resize_createElementAndBounds(elements[i], change, rejected)])
    IN << [kind |-> "setBounds", bounds |-> elementAndBounds],
          [kind |-> "changeBounds", newBounds |-> elementAndBounds] >>

widths(elements) == [i \in 1..Len(elements) |-> elements[i].bounds.width]
heights(elements) == [i \in 1..Len(elements) |-> elements[i].bounds.height]

\* mutant: the element keeps its position, it is not resized around its center
resizeWidth_KeepPosition(elements, act, rejected) ==
    LET targetWidth == reductionFunction(act.reductionFunction, widths(elements))
    IN dispatchResizeActions(elements,
           [element \in ElementsOf(elements) |->
               [newPosition |-> EmptyRecord, newSize |-> [width |-> targetWidth]]],
           rejected)

resizeWidth(elements, act, rejected) ==
    LET targetWidth == reductionFunction(act.reductionFunction, widths(elements))
    IN dispatchResizeActions(elements,
           [element \in ElementsOf(elements) |->
               LET halfDiffWidth == Half(targetWidth - element.bounds.width)
               IN [newPosition |-> [x |-> element.bounds.x - halfDiffWidth],
                   newSize |-> [width |-> targetWidth]]],
           rejected)

resizeHeight(elements, act, rejected) ==
    LET targetHeight == reductionFunction(act.reductionFunction, heights(elements))
    IN dispatchResizeActions(elements,
           [element \in ElementsOf(elements) |->
               LET halfDiffHeight == Half(targetHeight - element.bounds.height)
               IN [newPosition |-> [y |-> element.bounds.y - halfDiffHeight],
                   newSize |-> [height |-> targetHeight]]],
           rejected)

resizeWidthAndHeight(elements, act, rejected) ==
    LET targetWidth == reductionFunction(act.reductionFunction, widths(elements))
        targetHeight == reductionFunction(act.reductionFunction, heights(elements))
    IN dispatchResizeActions(elements,
           [element \in ElementsOf(elements) |->
               LET halfDiffWidth == Half(targetWidth - element.bounds.width)
                   halfDiffHeight == Half(targetHeight - element.bounds.height)
               IN [newPosition |-> [x |-> element.bounds.x - halfDiffWidth,
                                    y |-> element.bounds.y - halfDiffHeight],
                   newSize |-> [width |-> targetWidth, height |-> targetHeight]]],
           rejected)

ResizeElementsCommand_execute ==
    /\ cmdState = "created"
    /\ action.kind = "resizeElementAction"
    /\ LET r == getActionElements(action, selection, root)
           elements == r.elements
       IN /\ action' = [action EXCEPT !.elementIds = r.elementIds]
          /\ targets' = elements
          /\ dispatched' =
                 IF hasSeveralElements(elements)
                 THEN CASE action.dimension = "Width" ->
                               Append(dispatched, resizeWidth(elements, action, restricted))
                        [] action.dimension = "Height" ->
                               Append(dispatched, resizeHeight(elements, action, restricted))
                        [] action.dimension = "Width_And_Height" ->
                               Append(dispatched, resizeWidthAndHeight(elements, action, restricted))
                        [] OTHER -> dispatched
                 ELSE dispatched
    /\ returned' = <<root>>
    /\ cmdState' = "executed"
    /\ UNCHANGED <<selection, root, restricted>>
    /\ UNCHANGED <<layoutVars, navVars, createVars>>

ResizeElementsCommand_undo ==
    /\ cmdState \in {"executed", "redone"}
    /\ action.kind = "resizeElementAction"
    /\ returned' = <<root>>
    /\ cmdState' = "undone"
    /\ UNCHANGED <<action, selection, root, restricted, targets, dispatched>>
    /\ UNCHANGED <<layoutVars, navVars, createVars>>

\* mutant: redo computes and dispatches the deltas again
ResizeElementsCommand_redo_Recomputes ==
    /\ cmdState = "undone"
    /\ action.kind = "resizeElementAction"
    /\ returned' = <<root>>
    /\ cmdState' = "redone"
    /\ dispatched' = Append(dispatched, resizeWidth(targets, action, restricted))
    /\ UNCHANGED <<action, selection, root, restricted, targets>>
    /\ UNCHANGED <<layoutVars, navVars, createVars>>

ResizeElementsCommand_redo ==
    /\ cmdState = "undone"
    /\ action.kind = "resizeElementAction"
    /\ returned' = <<root>>
    /\ cmdState' = "redone"
    /\ UNCHANGED <<action, selection, root, restricted, targets, dispatched>>
    /\ UNCHANGED <<layoutVars, navVars, createVars>>

\* ------------------------------------------------ AlignElementsCommand
xs(elements) == [i \in 1..Len(elements) |-> elements[i].bounds.x]
ys(elements) == [i \in 1..Len(elements) |-> elements[i].bounds.y]
rights(elements) == [i \in 1..Len(elements) |-> elements[i].bounds.x + elements[i].bounds.width]
bottoms(elements) == [i \in 1..Len(elements) |-> elements[i].bounds.y + elements[i].bounds.height]

createElementMove(element, change, rejected) ==
    LET move == [elementId |-> element.id,
                 fromPosition |-> [x |-> element.bounds.x, y |-> element.bounds.y],
                 toPosition |-> [x |-> element.bounds.x, y |-> element.bounds.y]]
        changed == [move EXCEPT !.toPosition = spread(move.toPosition, change[element].toPosition)]
    IN toValidElementMove(element, changed, rejected)

\* mutant: the operation carries the position the element is moved from
Align_createElementAndBounds_FromPosition(element, move) ==
    [elementId |-> element.id,
     newPosition |-> [x |-> move.fromPosition.x, y |-> move.fromPosition.y],
     newSize |-> [width |-> element.bounds.width, height |-> element.bounds.height]]

Align_createElementAndBounds(element, move) ==
    [elementId |-> element.id,
     newPosition |-> [x |-> move.toPosition.x, y |-> move.toPosition.y],
     newSize |-> [width |-> element.bounds.width, height |-> element.bounds.height]]

\* mutant: one rejected move empties the whole batch
dispatchAlignActions_Atomic(elements, change, rejected) ==
    LET made == [i \in 1..Len(elements) |-> createElementMove(elements[i], change, rejected)]
        whole == \A i \in 1..Len(elements) : Len(made[i]) = 1
        moves == IF whole THEN Flatten(made) ELSE <<>>
        elementAndBounds == IF whole
                            THEN [i \in 1..Len(elements) |->
                                     Align_createElementAndBounds(elements[i], made[i][1])]
                            ELSE <<>>
    IN << [kind |-> "move", moves |-> moves],
          [kind |-> "changeBounds", newBounds |-> elementAndBounds] >>

dispatchAlignActions(elements, change, rejected) ==
    LET made == [i \in 1..Len(elements) |-> createElementMove(elements[i], change, rejected)]
        moves == Flatten(made)
        elementAndBounds == Flatten([i \in 1..Len(elements) |->
                                IF Len(made[i]) = 0 THEN <<>>
                                ELSE <<Align_createElementAndBounds(elements[i], made[i][1])>>])
    IN << [kind |-> "move", moves |-> moves],
          [kind |-> "changeBounds", newBounds |-> elementAndBounds] >>

\* mutant: the reference is written to the y coordinate
alignLeft_SetsY(elements, act, rejected) ==
    LET calculationElements == selectionFunction(act.selectionFunction, elements)
        minX == MinSeq(xs(calculationElements))
    IN dispatchAlignActions(elements,
           [element \in ElementsOf(elements) |-> [toPosition |-> [y |-> minX]]], rejected)

alignLeft(elements, act, rejected) ==
    LET calculationElements == selectionFunction(act.selectionFunction, elements)
        minX == MinSeq(xs(calculationElements))
    IN dispatchAlignActions(elements,
           [element \in ElementsOf(elements) |-> [toPosition |-> [x |-> minX]]], rejected)

alignCenter(elements, act, rejected) ==
    LET calculationElements == selectionFunction(act.selectionFunction, elements)
        minX == MinSeq(xs(calculationElements))
        maxX == MaxSeq(rights(calculationElements))
        diffX == maxX - minX
        centerX == minX + Half(diffX)
    IN dispatchAlignActions(elements,
           [element \in ElementsOf(elements) |->
               [toPosition |-> [x |-> centerX - Half(element.bounds.width)]]], rejected)

alignRight(elements, act, rejected) ==
    LET calculationElements == selectionFunction(act.selectionFunction, elements)
        maxX == MaxSeq(rights(calculationElements))
    IN dispatchAlignActions(elements,
           [element \in ElementsOf(elements) |->
               [toPosition |-> [x |-> maxX - element.bounds.width]]], rejected)

alignTop(elements, act, rejected) ==
    LET calculationElements == selectionFunction(act.selectionFunction, elements)
        minY == MinSeq(ys(calculationElements))
    IN dispatchAlignActions(elements,
           [element \in ElementsOf(elements) |-> [toPosition |-> [y |-> minY]]], rejected)

alignMiddle(elements, act, rejected) ==
    LET calculationElements == selectionFunction(act.selectionFunction, elements)
        minY == MinSeq(ys(calculationElements))
        maxY == MaxSeq(bottoms(calculationElements))
        diffY == maxY - minY
        middleY == minY + Half(diffY)
    IN dispatchAlignActions(elements,
           [element \in ElementsOf(elements) |->
               [toPosition |-> [y |-> middleY - Half(element.bounds.height)]]], rejected)

alignBottom(elements, act, rejected) ==
    LET calculationElements == selectionFunction(act.selectionFunction, elements)
        maxY == MaxSeq(bottoms(calculationElements))
    IN dispatchAlignActions(elements,
           [element \in ElementsOf(elements) |->
               [toPosition |-> [y |-> maxY - element.bounds.height]]], rejected)

AlignElementsCommand_execute ==
    /\ cmdState = "created"
    /\ action.kind = "alignElements"
    /\ LET r == getActionElements(action, selection, root)
           elements == r.elements
       IN /\ action' = [action EXCEPT !.elementIds = r.elementIds]
          /\ targets' = elements
          /\ dispatched' =
                 IF hasSeveralElements(elements)
                 THEN CASE action.alignment = "Left" ->
                               Append(dispatched, alignLeft(elements, action, restricted))
                        [] action.alignment = "Center" ->
                               Append(dispatched, alignCenter(elements, action, restricted))
                        [] action.alignment = "Right" ->
                               Append(dispatched, alignRight(elements, action, restricted))
                        [] action.alignment = "Top" ->
                               Append(dispatched, alignTop(elements, action, restricted))
                        [] action.alignment = "Middle" ->
                               Append(dispatched, alignMiddle(elements, action, restricted))
                        [] action.alignment = "Bottom" ->
                               Append(dispatched, alignBottom(elements, action, restricted))
                        [] OTHER -> dispatched
                 ELSE dispatched
    /\ returned' = <<root>>
    /\ cmdState' = "executed"
    /\ UNCHANGED <<selection, root, restricted>>
    /\ UNCHANGED <<layoutVars, navVars, createVars>>

AlignElementsCommand_undo ==
    /\ cmdState \in {"executed", "redone"}
    /\ action.kind = "alignElements"
    /\ returned' = <<root>>
    /\ cmdState' = "undone"
    /\ UNCHANGED <<action, selection, root, restricted, targets, dispatched>>
    /\ UNCHANGED <<layoutVars, navVars, createVars>>

AlignElementsCommand_redo ==
    /\ cmdState = "undone"
    /\ action.kind = "alignElements"
    /\ returned' = <<root>>
    /\ cmdState' = "redone"
    /\ UNCHANGED <<action, selection, root, restricted, targets, dispatched>>
    /\ UNCHANGED <<layoutVars, navVars, createVars>>

\* ======================================================= marker navigator
\* A node of the model is selectable and bounds aware:
\*   [kind |-> "node", id, bounds |-> [x, y], markers]
\* and an issue marker is a child of the node it annotates:
\*   [kind |-> "marker", id, parent |-> the node, issues |-> the severities]

\* utils/marker: the issue markers below the root, in document order
collectIssueMarkers(r) == Flatten([i \in 1..Len(r) |-> r[i].markers])

\* utils/marker: MarkerPredicates.ALL accepts every marker
MarkerPredicates_ALL(marker) == TRUE

\* sprotty: the element itself or its nearest ancestor that is selectable and
\* bounds aware; <<>> when there is none
findParentByFeature(element) ==
    IF element.kind = "marker" THEN <<element.parent>> ELSE <<element>>

SModelElementComparator_compare(one, other) == 0

LeftToRightTopToBottomComparator_compare(one, other) ==
    LET boundsOne == findParentByFeature(one)
        boundsOther == findParentByFeature(other)
    IN IF Len(boundsOne) = 1 /\ Len(boundsOther) = 1
       THEN IF boundsOne[1].bounds.y # boundsOther[1].bounds.y
            THEN boundsOne[1].bounds.y - boundsOther[1].bounds.y
            ELSE IF boundsOne[1].bounds.x # boundsOther[1].bounds.x
                 THEN boundsOne[1].bounds.x - boundsOther[1].bounds.x
                 ELSE 0
       ELSE 0

\* this.markerComparator.compare, by the class the container binds
compare(comparator, one, other) ==
    IF comparator = "LeftToRightTopToBottomComparator"
    THEN LeftToRightTopToBottomComparator_compare(one, other)
    ELSE SModelElementComparator_compare(one, other)

\* Array.prototype.sort: stable, ascending by the comparator
RECURSIVE sort(_, _)
sort(comparator, elements) ==
    IF Len(elements) = 0 THEN <<>>
    ELSE LET front == sort(comparator, SubSeq(elements, 1, Len(elements) - 1))
             last == elements[Len(elements)]
             k == Cardinality({i \in 1..Len(front) : compare(comparator, front[i], last) <= 0})
         IN SubSeq(front, 1, k) \o <<last>> \o SubSeq(front, k + 1, Len(front))

matchesSeverities(marker, severities) ==
    \E i \in 1..Len(marker.issues) : \E j \in 1..Len(severities) :
        severities[j] = marker.issues[i]

getMarkers(r, pred, comparator) ==
    LET markers == collectIssueMarkers(r)
        Test(marker) == IF pred.kind = "ALL" THEN MarkerPredicates_ALL(marker)
                        ELSE matchesSeverities(marker, pred.severities)
    IN sort(comparator, SelectSeq(markers, Test))

\* mutant: the search stops at the last marker instead of wrapping
getNextIndex_NoWrap(cur, markers, comparator) ==
    LET hits == {index \in 0..(Len(markers) - 1) : compare(comparator, markers[index + 1], cur) > 0}
    IN IF hits = {} THEN Len(markers) - 1 ELSE CHOOSE index \in hits : \A h \in hits : index <= h

\* indices count from 0 as in the source
getNextIndex(cur, markers, comparator) ==
    LET hits == {index \in 0..(Len(markers) - 1) : compare(comparator, markers[index + 1], cur) > 0}
    IN IF hits = {} THEN 0 ELSE CHOOSE index \in hits : \A h \in hits : index <= h

\* mutant: -1 reports that no marker precedes current
getPreviousIndex_MinusOne(cur, markers, comparator) ==
    LET hits == {index \in 0..(Len(markers) - 1) : compare(comparator, markers[index + 1], cur) < 0}
    IN IF hits = {} THEN -1 ELSE CHOOSE index \in hits : \A h \in hits : index >= h

getPreviousIndex(cur, markers, comparator) ==
    LET hits == {index \in 0..(Len(markers) - 1) : compare(comparator, markers[index + 1], cur) < 0}
    IN IF hits = {} THEN Len(markers) - 1 ELSE CHOOSE index \in hits : \A h \in hits : index >= h

\* markers[index % markers.length]: the remainder has the sign of index, it is
\* NaN for an empty array, and an index outside the array reads undefined
elementAtRemainder(markers, index) ==
    IF Len(markers) = 0 THEN <<>>
    ELSE LET remainder == IF index >= 0 THEN index % Len(markers)
                          ELSE 0 - ((0 - index) % Len(markers))
         IN IF remainder >= 0 THEN <<markers[remainder + 1]>> ELSE <<>>

next(r, cur, pred, comparator) ==
    LET markers == getMarkers(r, pred, comparator)
    IN IF cur = <<>>
       THEN IF Len(markers) > 0 THEN <<markers[1]>> ELSE <<>>
       ELSE elementAtRemainder(markers, getNextIndex(cur[1], markers, comparator))

\* mutant: without a current element the search starts from the end
previous_FromEnd(r, cur, pred, comparator) ==
    LET markers == getMarkers(r, pred, comparator)
    IN IF cur = <<>>
       THEN IF Len(markers) > 0 THEN <<markers[Len(markers)]>> ELSE <<>>
       ELSE elementAtRemainder(markers, getPreviousIndex(cur[1], markers, comparator))

previous(r, cur, pred, comparator) ==
    LET markers == getMarkers(r, pred, comparator)
    IN IF cur = <<>>
       THEN IF Len(markers) > 0 THEN <<markers[1]>> ELSE <<>>
       ELSE elementAtRemainder(markers, getPreviousIndex(cur[1], markers, comparator))

MarkerNavigator_next ==
    /\ navState = "ready"
    /\ found' = <<next(markerRoot, current, predicate, markerComparator)>>
    /\ history' = <<[current |-> current, found |-> found'[1]]>>
    /\ navState' = "next"
    /\ UNCHANGED <<markerRoot, current, predicate, markerComparator>>
    /\ UNCHANGED <<layoutVars, commandVars, createVars>>

MarkerNavigator_previous ==
    /\ navState = "ready"
    /\ found' = <<previous(markerRoot, current, predicate, markerComparator)>>
    /\ history' = <<[current |-> current, found |-> found'[1]]>>
    /\ navState' = "previous"
    /\ UNCHANGED <<markerRoot, current, predicate, markerComparator>>
    /\ UNCHANGED <<layoutVars, commandVars, createVars>>

\* the caller steps on: the marker returned last is the current element of
\* the following call
MarkerNavigator_next_again ==
    /\ navState = "next"
    /\ found[1] # <<>>
    /\ Len(history) < MaxMarkers
    /\ current' = found[1]
    /\ found' = <<next(markerRoot, current', predicate, markerComparator)>>
    /\ history' = Append(history, [current |-> current', found |-> found'[1]])
    /\ UNCHANGED <<markerRoot, predicate, markerComparator, navState>>
    /\ UNCHANGED <<layoutVars, commandVars, createVars>>

MarkerNavigator_previous_again ==
    /\ navState = "previous"
    /\ found[1] # <<>>
    /\ Len(history) < MaxMarkers
    /\ current' = found[1]
    /\ found' = <<previous(markerRoot, current', predicate, markerComparator)>>
    /\ history' = Append(history, [current |-> current', found |-> found'[1]])
    /\ UNCHANGED <<markerRoot, predicate, markerComparator, navState>>
    /\ UNCHANGED <<layoutVars, commandVars, createVars>>

\* ------------------------------------------------ the create functions
ResizeElementsAction_create_call ==
    /\ factory = "resize"
    /\ created = <<>>
    /\ created' = <<ResizeElementsAction_create(createOptions)>>
    /\ UNCHANGED <<factory, createOptions>>
    /\ UNCHANGED <<layoutVars, commandVars, navVars>>

AlignElementsAction_create_call ==
    /\ factory = "align"
    /\ created = <<>>
    /\ created' = <<AlignElementsAction_create(createOptions)>>
    /\ UNCHANGED <<factory, createOptions>>
    /\ UNCHANGED <<layoutVars, commandVars, navVars>>

\* ------------------------------------------------------ commands: inputs
Ids == {"a", "b", "c", "z"}

Element(id, x, y, w, h, resizable, moveable) ==
    [id |-> id, bounds |-> Bounds(x, y, w, h), resizable |-> resizable, moveable |-> moveable]

\* the model index resolves a, b and c; z is not an element of the model
Roots ==
    { [id \in {"a", "b", "c"} |->
          CASE id = "a" -> Element("a", U(0), U(10), U(10), U(20), TRUE, TRUE)
            [] id = "b" -> Element("b", U(30), U(0), U(30), U(10), TRUE, TRUE)
            [] id = "c" -> Element("c", U(5), U(40), U(20), U(40), capable, capable)] :
      capable \in BOOLEAN }

Opt(key, value) == IF Len(value) = 0 THEN EmptyRecord ELSE [k \in {key} |-> value[1]]
Optional(S) == {<<>>} \cup {<<v>> : v \in S}

ResizeOptions(ids) ==
    { spread(spread(Opt("elementIds", ids), Opt("dimension", d)), [reductionFunction |-> f]) :
      d \in Optional({"Width", "Height", "Width_And_Height"}),
      f \in {"min", "max", "avg", "first", "last"} }

AlignOptions(ids) ==
    { spread(spread(Opt("elementIds", ids), Opt("alignment", al)), Opt("selectionFunction", sf)) :
      al \in Optional({"Left", "Center", "Right", "Top", "Middle", "Bottom"}),
      sf \in Optional({"all", "first", "last"}) }

\* the selection is read only when the action names no element
Selections(ids) == IF ids = <<>> THEN SeqsUpTo(Ids, MaxIds) ELSE {<<>>, <<"b", "a">>}

\* ------------------------------------------------------ navigator: inputs
Positions == {[x |-> 0, y |-> 0], [x |-> 10, y |-> 0], [x |-> 0, y |-> 10]}
IssueLists == {<<>>, <<"error">>, <<"warning", "info">>}

\* node i of the root; it carries a marker when it has issues
Node(i, position, issues) ==
    LET self == [kind |-> "node", id |-> i, bounds |-> position]
    IN [kind |-> "node", id |-> i, bounds |-> position,
        markers |-> IF issues = <<>> THEN <<>>
                    ELSE <<[kind |-> "marker", id |-> i, parent |-> self, issues |-> issues]>>]

MarkerRoots ==
    { [i \in 1..Len(ks) |-> Node(i, ks[i][1], ks[i][2])] :
      ks \in SeqsUpTo(Positions \X IssueLists, MaxMarkers) }

\* no current element, a node of the root, a marker of the root, or a node
\* below and right of every other
Currents(r) ==
    {<<>>} \cup {<<r[i]>> : i \in 1..Len(r)}
           \cup {<<collectIssueMarkers(r)[i]>> : i \in 1..Len(collectIssueMarkers(r))}
           \cup {<<Node(0, [x |-> 10, y |-> 10], <<>>)>>}

Predicates == {[kind |-> "ALL"], [kind |-> "matchesSeverities", severities |-> <<"error">>]}

Comparators == {"SModelElementComparator", "LeftToRightTopToBottomComparator"}

IdleMarker ==
    /\ markerRoot = <<>>
    /\ current = <<>>
    /\ predicate = [kind |-> "ALL"]
    /\ markerComparator = "SModelElementComparator"
    /\ found = <<>>
    /\ navState = "idle"
    /\ history = <<>>

IdleCreate ==
    /\ factory = "none"
    /\ createOptions = EmptyRecord
    /\ created = <<>>

IdleCommand ==
    /\ action = [kind |-> "none", elementIds |-> <<>>]
    /\ selection = <<>>
    /\ root = <<>>
    /\ restricted = {}
    /\ targets = <<>>
    /\ dispatched = <<>>
    /\ returned = <<>>
    /\ cmdState = "idle"

IdleLayout ==
    /\ container = [bounds |-> EMPTY_BOUNDS, layoutData |-> [present |-> FALSE, hasPrefSize |-> FALSE,
                                                             prefSize |-> NoSize],
                    layoutOptions |-> EmptyRecord]
    /\ children = <<>>
    /\ containerData = [bounds |-> EMPTY_BOUNDS, boundsChanged |-> FALSE]
    /\ childData = <<>>
    /\ locals = NoLocals
    /\ phase = "idle"

InitLayout ==
    /\ \E o \in ContainerOptions, ld \in LayoutDatas :
          container = [bounds |-> Bounds(U(7), U(3), U(20), U(20)), layoutData |-> ld, layoutOptions |-> o]
    /\ \E ks \in SeqsUpTo(ChildKinds, MaxChildren) :
          /\ children = [i \in DOMAIN ks |-> [layoutable |-> ks[i].layoutable,
                                             layoutOptions |-> ks[i].layoutOptions]]
          /\ childData = [i \in DOMAIN ks |-> [bounds |-> ks[i].bounds, boundsChanged |-> FALSE]]
    /\ containerData = [bounds |-> container.bounds, boundsChanged |-> FALSE]
    /\ locals = NoLocals
    /\ phase = "ready"
    /\ IdleCommand
    /\ IdleMarker
    /\ IdleCreate

InitCommand ==
    /\ IdleLayout
    /\ IdleMarker
    /\ IdleCreate
    /\ \E ids \in SeqsUpTo(Ids, MaxIds) :
          /\ \E explicit \in BOOLEAN :
                \/ \E o \in ResizeOptions(IF explicit \/ ids # <<>> THEN <<ids>> ELSE <<>>) :
                      action = ResizeElementsAction_create(o)
                \/ \E o \in AlignOptions(IF explicit \/ ids # <<>> THEN <<ids>> ELSE <<>>) :
                      action = AlignElementsAction_create(o)
          /\ selection \in Selections(ids)
    /\ root \in Roots
    /\ restricted \in {{}, {"b"}}
    /\ targets = <<>>
    /\ dispatched = <<>>
    /\ returned = <<>>
    /\ cmdState = "created"

InitMarker ==
    /\ IdleLayout
    /\ IdleCommand
    /\ IdleCreate
    /\ markerRoot \in MarkerRoots
    /\ current \in Currents(markerRoot)
    /\ predicate \in Predicates
    /\ markerComparator \in Comparators
    /\ found = <<>>
    /\ navState = "ready"
    /\ history = <<>>

InitCreate ==
    /\ IdleLayout
    /\ IdleCommand
    /\ IdleMarker
    /\ \E ids \in Optional(SeqsUpTo(Ids, MaxIds)) :
          \/ factory = "resize" /\ createOptions \in ResizeOptions(ids)
          \/ factory = "align" /\ createOptions \in AlignOptions(ids)
    /\ created = <<>>

NextLayout == layout

NextCommand ==
    \/ ResizeElementsCommand_execute
    \/ ResizeElementsCommand_undo
    \/ ResizeElementsCommand_redo
    \/ AlignElementsCommand_execute
    \/ AlignElementsCommand_undo
    \/ AlignElementsCommand_redo

SpecLayout == InitLayout /\ [][NextLayout]_vars

SpecCommand == InitCommand /\ [][NextCommand]_vars

NextMarker ==
    \/ MarkerNavigator_next
    \/ MarkerNavigator_previous
    \/ MarkerNavigator_next_again
    \/ MarkerNavigator_previous_again

SpecMarker == InitMarker /\ [][NextMarker]_vars

NextCreate ==
    \/ ResizeElementsAction_create_call
    \/ AlignElementsAction_create_call

SpecCreate == InitCreate /\ [][NextCreate]_vars

\* ====================================================== layout: properties
LayoutStep == phase = "ready" /\ phase' = "done"

opts == getLayoutOptions(container)
ValidChildren == {i \in 1..Len(children) : children[i].layoutable /\ childData[i].bounds.defined
                                            /\ childData[i].bounds.width >= 0
                                            /\ childData[i].bounds.height >= 0}
HeightOf == [i \in 1..Len(children) |-> childData[i].bounds.height]
WidestOf(S) == CHOOSE w \in {childData[i].bounds.width : i \in S} :
                   \A i \in S : childData[i].bounds.width <= w
padW == opts.paddingLeft + opts.paddingRight
padH == opts.paddingTop + opts.paddingBottom

\* C1 (as stated): for any child list the aggregate height is the sum of the
\* valid children's heights plus (n-1)*vGap, n the number of valid children,
\* and the aggregate width is the maximum width over the valid children.
C1_Original ==
    [][LayoutStep =>
          /\ locals'.childrenSize.height =
                 SumOver(ValidChildren, HeightOf) + (Cardinality(ValidChildren) - 1) * opts.vGap
          /\ ValidChildren # {} => locals'.childrenSize.width = WidestOf(ValidChildren)]_vars

\* C1 (amended): with at least one valid child the aggregate height is the sum
\* of the valid children's heights plus (n-1)*vGap and the aggregate width is
\* their maximum width; with no valid child the height is 0 and the width -1.
\* Skipped children contribute neither height nor gap.
C1_ChildrenSize ==
    [][LayoutStep =>
          locals'.childrenSize =
              IF ValidChildren = {}
              THEN [width |-> U(-1), height |-> 0]
              ELSE [width |-> WidestOf(ValidChildren),
                    height |-> SumOver(ValidChildren, HeightOf)
                               + (Cardinality(ValidChildren) - 1) * opts.vGap]]_vars

\* three children, one of them skipped, and a non-zero gap counted once
C1_Witness ==
    /\ phase = "done" /\ Len(children) = 3 /\ opts.vGap = U(5)
    /\ \E i \in 1..3 : ~children[i].layoutable
    /\ locals.childrenSize = [width |-> U(30), height |-> U(10 + 20 + 5)]

FixedAsStated == IF container.layoutData.hasPrefSize THEN container.layoutData.prefSize ELSE NoSize
FixedAsCoded ==
    IF container.layoutData.hasPrefSize THEN container.layoutData.prefSize
    ELSE IF container.layoutData.present THEN NoSize
    ELSE [width |-> U(-1), height |-> U(-1)]

UsableFor(fixed) ==
    [width |-> opts.paddingFactor * (IF opts.resizeContainer
                                     THEN MaxOf(fixed.width - padW, locals.childrenSize.width)
                                     ELSE MaxOf(0, fixed.width - padW)),
     height |-> opts.paddingFactor * (IF opts.resizeContainer
                                      THEN MaxOf(fixed.height - padH, locals.childrenSize.height)
                                      ELSE MaxOf(0, fixed.height - padH))]

\* C2 (as stated): the usable interior is paddingFactor * max(fixed - padding,
\* childrenAggregate) with resizeContainer and paddingFactor * max(0, fixed -
\* padding) without, fixed being the preferred size if present and zero otherwise.
C2_Original ==
    phase = "done" =>
        [width |-> locals.maxWidth, height |-> locals.maxHeight] = UsableFor(FixedAsStated)

\* C2 (amended): the same formula, where fixed is the preferred size if present,
\* zero if the container has layout data without a preferred size, and -1 (the
\* size of EMPTY_BOUNDS) if the container has no layout data at all.
C2_UsableInterior ==
    phase = "done" =>
        [width |-> locals.maxWidth, height |-> locals.maxHeight] = UsableFor(FixedAsCoded)

\* a container without layout data, padding and valid children: usable width -1
C2_Witness ==
    /\ phase = "done" /\ ~container.layoutData.present /\ opts.resizeContainer
    /\ padW = 0 /\ locals.childrenSize.width = U(-1)
    /\ locals.maxWidth = opts.paddingFactor * U(-1)

\* C3 (as stated): with resizeContainer = false and preferred size S the usable
\* interior never exceeds paddingFactor * (S - padding) on either axis.
C3_Original ==
    (phase = "done" /\ ~opts.resizeContainer /\ container.layoutData.hasPrefSize) =>
        /\ locals.maxWidth <= opts.paddingFactor * (container.layoutData.prefSize.width - padW)
        /\ locals.maxHeight <= opts.paddingFactor * (container.layoutData.prefSize.height - padH)

\* C3 (amended): with resizeContainer = false and preferred size S the usable
\* interior never exceeds paddingFactor * max(0, S - padding) on either axis,
\* regardless of the children and the padding values.
C3_FixedInterior ==
    (phase = "done" /\ ~opts.resizeContainer /\ container.layoutData.hasPrefSize) =>
        /\ locals.maxWidth <= opts.paddingFactor * MaxOf(0, container.layoutData.prefSize.width - padW)
        /\ locals.maxHeight <= opts.paddingFactor * MaxOf(0, container.layoutData.prefSize.height - padH)

\* a fixed container whose children need more height than the interior has
C3_Witness ==
    /\ phase = "done" /\ ~opts.resizeContainer /\ container.layoutData.hasPrefSize
    /\ Len(children) = MaxChildren
    /\ locals.maxHeight > 0 /\ locals.childrenSize.height > locals.maxHeight

GrabbingChildren == {i \in 1..Len(children) : getChildLayoutOptions(children[i], opts).vGrab}

\* C4 (as stated): whenever at least one child has vGrab set, the heights of
\* the children grow in total by the free space usableHeight -
\* childrenAggregateHeight, and each grabbing child grows by freeSpace /
\* grabbingCount.
C4_Original ==
    [][(LayoutStep /\ GrabbingChildren # {}) =>
          LET free == locals'.maxHeight - locals'.childrenSize.height
              grown == [i \in 1..Len(children) |->
                           childData'[i].bounds.height - childData[i].bounds.height]
          IN /\ SumOver(1..Len(children), grown) = free
             /\ \A i \in GrabbingChildren :
                    grown[i] * Cardinality(GrabbingChildren) = free]_vars

\* C5: layout writes the container's bounds data only if both usable sizes are
\* strictly positive; otherwise the bounds data of the container and of every
\* child are left as they were.
C5_CommitGuard ==
    [][LayoutStep =>
          /\ containerData' # containerData => (locals'.maxWidth > 0 /\ locals'.maxHeight > 0)
          /\ ~(locals'.maxWidth > 0 /\ locals'.maxHeight > 0) =>
                 (containerData' = containerData /\ childData' = childData)]_vars

\* a pass over valid children that does not commit
C5_Witness ==
    /\ phase = "done" /\ locals.childrenSize.height > 0
    /\ locals.maxWidth > 0 /\ locals.maxHeight = 0
    /\ ~containerData.boundsChanged
    /\ \A i \in 1..Len(children) : ~childData[i].boundsChanged

SizeFloor == IF container.layoutData.hasPrefSize THEN container.layoutData.prefSize
             ELSE [width |-> opts.minWidth, height |-> opts.minHeight]

\* C6: when a pass commits, the container's size is on each axis the maximum of
\* the preferred size (the configured minimum size if there is none) and the
\* children aggregate plus the two paddings; it is never smaller than that
\* preferred or minimum size, and the container's x and y are unchanged.
C6_FinalContainerBounds ==
    (phase = "done" /\ containerData.boundsChanged) =>
        /\ containerData.bounds.width = MaxOf(SizeFloor.width, locals.childrenSize.width + padW)
        /\ containerData.bounds.height = MaxOf(SizeFloor.height, locals.childrenSize.height + padH)
        /\ containerData.bounds.width >= SizeFloor.width
        /\ containerData.bounds.height >= SizeFloor.height
        /\ containerData.bounds.x = container.bounds.x
        /\ containerData.bounds.y = container.bounds.y

\* a committed pass in which the content plus padding outgrows the preferred height
C6_Witness ==
    /\ phase = "done" /\ containerData.boundsChanged /\ container.layoutData.hasPrefSize
    /\ padH > 0
    /\ containerData.bounds.height = locals.childrenSize.height + padH
    /\ containerData.bounds.height > container.layoutData.prefSize.height
    /\ containerData.bounds.width = container.layoutData.prefSize.width

\* =================================================== commands: properties
ExecuteStep == cmdState = "created" /\ cmdState' = "executed"

IsResize == action.kind = "resizeElementAction"
Qualifies(id) ==
    /\ id \in DOMAIN root
    /\ IF IsResize THEN root[id].resizable ELSE root[id].moveable
IdsOf(elements) == [i \in 1..Len(elements) |-> elements[i].id]

\* C7: the target list of a resize or align command is built from
\* action.elementIds if non-empty and otherwise from the selected ids in
\* selection order; unresolvable ids and elements failing the capability
\* predicate are dropped and the order of the remaining elements is kept.
C7_ActionElements ==
    [][ExecuteStep =>
          LET source == IF action.elementIds # <<>> THEN action.elementIds ELSE selection
              kept == SelectSeq(source, Qualifies)
          IN targets' = [i \in 1..Len(kept) |-> root[kept[i]]]]_vars

\* an executed command whose targets come from a selection with an unresolvable id
C7_Witness ==
    /\ cmdState = "executed"
    /\ selection = <<"b", "z", "a">>
    /\ action.elementIds = selection
    /\ IdsOf(targets) = <<"b", "a">>

\* C8: when fewer than two target elements qualify, executing a resize or an
\* align command dispatches no action and returns the unchanged root.
C8_FewerThanTwo ==
    [][(ExecuteStep /\ Len(targets') < 2) =>
          /\ dispatched' = dispatched
          /\ root' = root
          /\ returned' = <<root>>]_vars

\* an executed resize command with exactly one qualifying element
C8_Witness ==
    /\ cmdState = "executed" /\ IsResize
    /\ Len(action.elementIds) = 3 /\ Len(targets) = 1
    /\ dispatched = <<>> /\ returned = <<root>>

\* C9 (as stated): the action record is never mutated after creation: every
\* execute, undo and redo leaves elementIds, dimension/alignment and the
\* function field as they were created.
C9_Original == [][action' = action]_vars

IsTarget(fn, values, t) ==
    CASE fn = "min" -> (\E i \in DOMAIN values : values[i] = t) /\ (\A i \in DOMAIN values : t <= values[i])
      [] fn = "max" -> (\E i \in DOMAIN values : values[i] = t) /\ (\A i \in DOMAIN values : t >= values[i])
      [] fn = "avg" -> t * Len(values) = SumOver(DOMAIN values, values)
      [] fn = "first" -> t = values[1]
      [] fn = "last" -> t = values[Len(values)]

IsAlign == action.kind = "alignElements"
ElementIdsOf(deltas) == [i \in 1..Len(deltas) |-> deltas[i].elementId]
Accepted(id) == id \notin restricted
MinOfSet(S) == CHOOSE m \in S : \A v \in S : m <= v
MaxOfSet(S) == CHOOSE m \in S : \A v \in S : m >= v

\* the elements the reference coordinate is computed from
SubsetOf(fn, elements) ==
    CASE fn = "all" -> {elements[i].bounds : i \in 1..Len(elements)}
      [] fn = "first" -> {elements[1].bounds}
      [] fn = "last" -> {elements[Len(elements)].bounds}

\* C11: for each of the six alignments the reference coordinate is computed
\* only from the elements the selection function returns (all, first, last)
\* with the formula of the table, and every qualifying element whose move is
\* emitted, in the subset or not, gets toPosition x = ref, ref - width, ref -
\* 0.5*width or y = ref, ref - height, ref - 0.5*height; the other coordinate
\* is the element's own.
C11_Align ==
    [][(ExecuteStep /\ IsAlign /\ Len(dispatched') > Len(dispatched)) =>
          LET moves == dispatched'[Len(dispatched')][1].moves
              sub == SubsetOf(action.selectionFunction, targets')
              minX == MinOfSet({b.x : b \in sub})
              maxX == MaxOfSet({b.x + b.width : b \in sub})
              minY == MinOfSet({b.y : b \in sub})
              maxY == MaxOfSet({b.y + b.height : b \in sub})
          IN /\ ElementIdsOf(moves) = SelectSeq(IdsOf(targets'), Accepted)
             /\ \A i \in 1..Len(moves) :
                   LET to == moves[i].toPosition
                       old == root[moves[i].elementId].bounds
                   IN CASE action.alignment = "Left" -> to.x = minX /\ to.y = old.y
                        [] action.alignment = "Right" -> to.x = maxX - old.width /\ to.y = old.y
                        [] action.alignment = "Center" ->
                               2 * to.x = (minX + maxX) - old.width /\ to.y = old.y
                        [] action.alignment = "Top" -> to.y = minY /\ to.x = old.x
                        [] action.alignment = "Bottom" -> to.y = maxY - old.height /\ to.x = old.x
                        [] action.alignment = "Middle" ->
                               2 * to.y = (minY + maxY) - old.height /\ to.x = old.x]_vars

\* b, a and c centered on the last element c alone: center 15, a moves to x = 10
C11_Witness ==
    /\ cmdState = "executed" /\ IsAlign
    /\ action.alignment = "Center" /\ action.selectionFunction = "last"
    /\ IdsOf(targets) = <<"b", "a", "c">>
    /\ Len(dispatched) = 1
    /\ LET moves == dispatched[1][1].moves
       IN /\ Len(moves) = 3
          /\ moves[2].elementId = "a" /\ moves[2].toPosition = [x |-> U(10), y |-> U(10)]
          /\ moves[1].elementId = "b" /\ moves[1].toPosition = [x |-> U(0), y |-> U(0)]

\* the position of an element once the moves dispatched so far are applied
MovesOf(id) == {m \in UNION {{b[1].moves[i] : i \in 1..Len(b[1].moves)} :
                                b \in {dispatched[k] : k \in 1..Len(dispatched)}} : m.elementId = id}
PositionAfter(id) ==
    IF MovesOf(id) = {} THEN [x |-> root[id].bounds.x, y |-> root[id].bounds.y]
    ELSE (CHOOSE m \in MovesOf(id) : TRUE).toPosition

AlignedLeft == cmdState = "executed" /\ IsAlign /\ action.alignment = "Left" /\ Len(targets) >= 1

\* C12 (as stated): after an align command with alignment Left is executed on
\* a nonempty list of elements and its moves are applied, all elements of the
\* list have equal x.
C12_Original ==
    AlignedLeft =>
        \A i, j \in 1..Len(targets) : PositionAfter(targets[i].id).x = PositionAfter(targets[j].id).x

\* C12 (amended): after an align command with alignment Left is executed on a
\* nonempty list of elements and its moves are applied, all elements of the
\* list whose move the movement restrictor accepted have equal x; an element
\* whose move was rejected keeps its position.
C12_AlignLeft ==
    AlignedLeft =>
        /\ \A i, j \in 1..Len(targets) :
              (Accepted(targets[i].id) /\ Accepted(targets[j].id)) =>
                  PositionAfter(targets[i].id).x = PositionAfter(targets[j].id).x
        /\ \A i \in 1..Len(targets) :
              ~Accepted(targets[i].id) =>
                  PositionAfter(targets[i].id) = [x |-> targets[i].bounds.x, y |-> targets[i].bounds.y]

\* c, b and a aligned left while the restrictor rejects b: a and c meet at x = 0
C12_Witness ==
    /\ AlignedLeft /\ action.selectionFunction = "all"
    /\ IdsOf(targets) = <<"c", "b", "a">> /\ restricted = {"b"}
    /\ PositionAfter("c").x = 0 /\ PositionAfter("a").x = 0
    /\ PositionAfter("b").x = U(30)
    /\ root["c"].bounds.x = U(5)

\* the deltas an artifact carries
ItemsOf(artifact) ==
    CASE artifact.kind = "setBounds" -> artifact.bounds
      [] artifact.kind = "move" -> artifact.moves
      [] artifact.kind = "changeBounds" -> artifact.newBounds
AcceptedDelta(delta) == Accepted(delta.elementId)

\* the batch the command proposes when the restrictor rejects nothing
Proposed(elements, act) ==
    IF act.kind = "resizeElementAction"
    THEN CASE act.dimension = "Width" -> resizeWidth(elements, act, {})
           [] act.dimension = "Height" -> resizeHeight(elements, act, {})
           [] act.dimension = "Width_And_Height" -> resizeWidthAndHeight(elements, act, {})
    ELSE CASE act.alignment = "Left" -> alignLeft(elements, act, {})
           [] act.alignment = "Center" -> alignCenter(elements, act, {})
           [] act.alignment = "Right" -> alignRight(elements, act, {})
           [] act.alignment = "Top" -> alignTop(elements, act, {})
           [] act.alignment = "Middle" -> alignMiddle(elements, act, {})
           [] act.alignment = "Bottom" -> alignBottom(elements, act, {})

\* C13: executing a resize or an align command on two or more elements always
\* dispatches exactly one batch; an element whose delta the movement
\* restrictor rejects is omitted from both artifacts of the batch, and the
\* deltas of the accepted elements are the proposed ones, unchanged and in
\* their original order.
C13_PartialApplication ==
    [][(ExecuteStep /\ Len(targets') >= 2) =>
          /\ Len(dispatched') = Len(dispatched) + 1
          /\ LET batch == dispatched'[Len(dispatched')]
                 proposed == Proposed(targets', action)
             IN \A k \in 1..2 :
                   ItemsOf(batch[k]) = SelectSeq(ItemsOf(proposed[k]), AcceptedDelta)]_vars

\* an align batch over b, a, c in which the move of b was rejected
C13_Witness ==
    /\ cmdState = "executed" /\ IsAlign
    /\ IdsOf(targets) = <<"b", "a", "c">> /\ restricted = {"b"}
    /\ Len(dispatched) = 1
    /\ ElementIdsOf(dispatched[1][1].moves) = <<"a", "c">>
    /\ ElementIdsOf(dispatched[1][2].newBounds) = <<"a", "c">>

\* C14: the two artifacts of every dispatched batch agree: the local delta
\* (set-bounds or move) and the change-bounds operation list the same element
\* ids in the same order and give each element the same final position; a
\* resize batch also gives the same final size, an align batch the size the
\* element currently has.
C14_ArtifactsAgree ==
    \A k \in 1..Len(dispatched) :
        LET local == ItemsOf(dispatched[k][1])
            operation == ItemsOf(dispatched[k][2])
        IN /\ dispatched[k][2].kind = "changeBounds"
           /\ ElementIdsOf(local) = ElementIdsOf(operation)
           /\ \A i \in 1..Len(local) :
                 IF dispatched[k][1].kind = "setBounds"
                 THEN /\ operation[i].newPosition = local[i].newPosition
                      /\ operation[i].newSize = local[i].newSize
                 ELSE /\ operation[i].newPosition = local[i].toPosition
                      /\ operation[i].newSize =
                             [width |-> root[local[i].elementId].bounds.width,
                              height |-> root[local[i].elementId].bounds.height]

\* an align batch that moves a and c to the right edge while b is rejected
C14_Witness ==
    /\ cmdState = "executed" /\ IsAlign /\ action.alignment = "Right"
    /\ IdsOf(targets) = <<"a", "b", "c">> /\ restricted = {"b"}
    /\ Len(dispatched) = 1
    /\ ElementIdsOf(dispatched[1][2].newBounds) = <<"a", "c">>
    /\ dispatched[1][1].moves[1].toPosition # dispatched[1][1].moves[1].fromPosition
    /\ dispatched[1][2].newBounds[1].newPosition = dispatched[1][1].moves[1].toPosition

UndoRedoStep == cmdState \in {"executed", "undone", "redone"} /\ cmdState' # cmdState

\* C15: after execute, a resize or align command only alternates between
\* undone and redone; every undo and every redo returns the root it was given
\* unchanged, dispatches no action and computes no delta, so the batch
\* recorded at execute is the only one the command ever emits.
C15_UndoRedo ==
    [][UndoRedoStep =>
          /\ cmdState' = (IF cmdState = "undone" THEN "redone" ELSE "undone")
          /\ returned' = <<root>>
          /\ root' = root
          /\ dispatched' = dispatched
          /\ targets' = targets
          /\ action' = action]_vars

\* a resize command that was executed on three elements, undone and redone
C15_Witness ==
    /\ cmdState = "redone" /\ IsResize
    /\ Len(targets) = 3
    /\ Len(dispatched) = 1
    /\ returned = <<root>>

\* ==================================================== navigator: properties
\* the predicate-filtered, comparator-sorted markers of the call
Sorted == getMarkers(markerRoot, predicate, markerComparator)
Called == navState \in {"next", "previous"}

\* C16: marker navigation wraps around in both directions: with N >= 1
\* sorted markers, next called with the last marker as current returns the
\* first marker, and previous called with the first marker as current returns
\* the last marker.
C16_Wraps ==
    /\ (navState = "next" /\ Len(Sorted) >= 1 /\ current = <<Sorted[Len(Sorted)]>>)
           => found = << <<Sorted[1]>> >>
    /\ (navState = "previous" /\ Len(Sorted) >= 1 /\ current = <<Sorted[1]>>)
           => found = << <<Sorted[Len(Sorted)]>> >>

\* three markers that the reading order rearranges; next from the last one
\* returns the first one
C16_Witness ==
    /\ navState = "next" /\ markerComparator = "LeftToRightTopToBottomComparator"
    /\ Len(Sorted) = 3 /\ Sorted # collectIssueMarkers(markerRoot)
    /\ Sorted[1].parent.bounds # Sorted[2].parent.bounds
    /\ Sorted[2].parent.bounds # Sorted[3].parent.bounds
    /\ current = <<Sorted[3]>>
    /\ found = << <<Sorted[1]>> >>

\* the markers of the root that the predicate of the call accepts
AllMarkers == UNION {{markerRoot[i].markers[k] : k \in 1..Len(markerRoot[i].markers)} :
                        i \in 1..Len(markerRoot)}
AcceptedMarkers ==
    {m \in AllMarkers : predicate.kind = "ALL" \/ \E k \in 1..Len(m.issues) : m.issues[k] = "error"}

\* C17: whenever at least one marker accepted by the predicate exists, next
\* and previous return one of the accepted markers, never undefined, for
\* every current element, marker or not; they return undefined only when no
\* accepted marker exists.
C17_NeverExhausted ==
    Called =>
        IF AcceptedMarkers # {}
        THEN \E m \in AcceptedMarkers : found = << <<m>> >>
        ELSE found = << <<>> >>

\* previous called from a node that is no marker, with two of three markers
\* accepted
C17_Witness ==
    /\ navState = "previous" /\ markerComparator = "LeftToRightTopToBottomComparator"
    /\ Len(current) = 1 /\ current[1].kind = "node" /\ current[1].markers = <<>>
    /\ Cardinality(AllMarkers) = 3 /\ Cardinality(AcceptedMarkers) = 2
    /\ \E m \in AcceptedMarkers : found = << <<m>> >>

\* C18: called without a current element, next and previous both return the
\* first marker of the predicate-filtered, comparator-sorted sequence, and
\* undefined when that sequence is empty.
C18_NoCurrent ==
    (Called /\ current = <<>>) =>
        /\ found = << IF Len(Sorted) > 0 THEN <<Sorted[1]>> ELSE <<>> >>
        /\ \A m \in AcceptedMarkers :
              found # << <<>> >> /\ compare(markerComparator, found[1][1], m) <= 0

\* previous without a current element returns the topmost of three markers,
\* which is not the first in document order
C18_Witness ==
    /\ navState = "previous" /\ current = <<>>
    /\ markerComparator = "LeftToRightTopToBottomComparator"
    /\ Len(Sorted) = 3
    /\ Sorted[1] # collectIssueMarkers(markerRoot)[1]
    /\ Sorted[1].parent.bounds # Sorted[3].parent.bounds
    /\ found = << <<Sorted[1]>> >>

\* ============================================== layout: order of placement
\* C19 (as stated): valid children are placed in the order of the child list:
\* of two placed children the one that comes first in the list is assigned a
\* y that is not greater than the y of the other.
C19_Original ==
    [][LayoutStep =>
          \A i, j \in ValidChildren :
              i < j => childData'[i].bounds.y <= childData'[j].bounds.y]_vars

\* ======================================================= create: properties
\* the option the caller supplied under a key, or the default of the key
OptionOr(key, default) ==
    IF key \in DOMAIN createOptions THEN createOptions[key] ELSE default

\* C20: AlignElementsAction.create yields alignment Left, selectionFunction
\* all and an empty elementIds list, and ResizeElementsAction.create yields
\* dimension Width and an empty elementIds list, unless the caller supplies
\* the option; every supplied option overrides its default.
C20_CreateDefaults ==
    /\ (factory = "align" /\ created # <<>>) =>
           created[1] = [kind |-> "alignElements",
                         elementIds |-> OptionOr("elementIds", <<>>),
                         alignment |-> OptionOr("alignment", "Left"),
                         selectionFunction |-> OptionOr("selectionFunction", "all")]
    /\ (factory = "resize" /\ created # <<>>) =>
           created[1] = [kind |-> "resizeElementAction",
                         elementIds |-> OptionOr("elementIds", <<>>),
                         dimension |-> OptionOr("dimension", "Width"),
                         reductionFunction |-> createOptions.reductionFunction]

\* create({alignment: Top}) keeps the two other defaults
C20_Witness ==
    /\ factory = "align" /\ createOptions = [alignment |-> "Top"]
    /\ created = <<[kind |-> "alignElements", elementIds |-> <<>>, alignment |-> "Top",
                    selectionFunction |-> "all"]>>

\* ============================================ layout: offsets and grabbing
Commits == locals'.maxWidth > 0 /\ locals'.maxHeight > 0
FirstPlaced == CHOOSE i \in ValidChildren : \A j \in ValidChildren : i <= j
\* the placed child that follows placed child i, if any
Follows(i, j) == i \in ValidChildren /\ j \in ValidChildren /\ i < j
                 /\ \A k \in ValidChildren : ~(i < k /\ k < j)
StartY == opts.paddingTop + Half(locals'.maxHeight - (locals'.maxHeight \div opts.paddingFactor))

\* C21 (as stated): in a committed pass the first placed child is put at
\* y = paddingTop + 0.5 * (usable - usable / paddingFactor), and each further
\* placed child is put at the y of the placed child before it plus that
\* child's final height plus vGap, whether that child grabbed or not.
C21_Original ==
    [][(LayoutStep /\ Commits) =>
          /\ ValidChildren # {} => childData'[FirstPlaced].bounds.y = StartY
          /\ \A i, j \in ValidChildren :
                Follows(i, j) =>
                    childData'[j].bounds.y =
                        childData'[i].bounds.y + childData'[i].bounds.height + opts.vGap]_vars

ChildOptions(i) == getChildLayoutOptions(children[i], opts)

\* C22: in a committed pass a placed child with hGrab ends with width equal
\* to the usable width, whatever its input width and whatever the free
\* space; a placed child without hGrab keeps its input width; and when no
\* child has vGrab or the free height is zero every placed child keeps its
\* input height.
C22_HGrab ==
    [][(LayoutStep /\ Commits) =>
          /\ \A i \in ValidChildren :
                childData'[i].bounds.width =
                    (IF ChildOptions(i).hGrab THEN locals'.maxWidth ELSE childData[i].bounds.width)
          /\ (locals'.grabbingChildren = 0 \/ locals'.grabHeight = 0) =>
                 \A i \in ValidChildren : childData'[i].bounds.height = childData[i].bounds.height]_vars

\* a committed pass over an hGrab child of width 30 in a usable width of 20:
\* the child is narrowed to the usable width, the child without hGrab keeps
\* its width
C22_Witness ==
    /\ phase = "done" /\ containerData.boundsChanged
    /\ Len(children) = 2
    /\ ChildOptions(1).hGrab /\ ~ChildOptions(2).hGrab /\ 2 \in ValidChildren
    /\ locals.maxWidth = U(20)
    /\ childData[1].bounds.width = U(20)
    /\ childData[2].bounds.width = U(10)

\* ======================================================= layout: containment
Committed == phase = "done" /\ containerData.boundsChanged
\* the children the pass placed: placing sets boundsChanged
Placed == {i \in 1..Len(children) : childData[i].boundsChanged}

\* C23 (as stated): after a committed pass every placed child lies
\* vertically inside the padded final container: its y is at least
\* paddingTop and its y plus its height is at most the final container
\* height minus paddingBottom.
C23_Original ==
    Committed =>
        \A i \in Placed :
            /\ childData[i].bounds.y >= opts.paddingTop
            /\ childData[i].bounds.y + childData[i].bounds.height
                   <= containerData.bounds.height - opts.paddingBottom

\* C24 (as stated): in a committed pass every placed child with vGrab ends
\* with a height that is at least its input height, and hence not negative.
C24_Original ==
    [][(LayoutStep /\ Commits) =>
          \A i \in ValidChildren :
              ChildOptions(i).vGrab =>
                  /\ childData'[i].bounds.height >= childData[i].bounds.height
                  /\ childData'[i].bounds.height >= 0]_vars

\* ===================================================== commands: anchoring
Horizontal == action.alignment \in {"Left", "Center", "Right"}
PositionOf(element) == [x |-> element.bounds.x, y |-> element.bounds.y]
SizeOf(element) == [width |-> element.bounds.width, height |-> element.bounds.height]

\* C25: in an align batch with selectionFunction first (last), the move
\* emitted for the first (last) qualifying element leaves it where it is,
\* for each of the six alignments; and every emitted move keeps the
\* coordinate of the axis that is not aligned, and every emitted operation
\* keeps the element's size.
C25_AnchorStability ==
    [][(ExecuteStep /\ IsAlign /\ Len(dispatched') > Len(dispatched)) =>
          LET moves == dispatched'[Len(dispatched')][1].moves
              operations == dispatched'[Len(dispatched')][2].newBounds
              n == Len(targets')
          IN /\ \A i \in 1..Len(moves) :
                    /\ moves[i].fromPosition = PositionOf(root[moves[i].elementId])
                    /\ IF Horizontal THEN moves[i].toPosition.y = moves[i].fromPosition.y
                                     ELSE moves[i].toPosition.x = moves[i].fromPosition.x
                    /\ operations[i].newSize = SizeOf(root[moves[i].elementId])
                    /\ (action.selectionFunction = "first" /\ moves[i].elementId = targets'[1].id)
                           => moves[i].toPosition = moves[i].fromPosition
                    /\ (action.selectionFunction = "last" /\ moves[i].elementId = targets'[n].id)
                           => moves[i].toPosition = moves[i].fromPosition]_vars

\* b, a and c centered on b, the first of them: b stays, a moves
C25_Witness ==
    /\ cmdState = "executed" /\ IsAlign
    /\ action.alignment = "Center" /\ action.selectionFunction = "first"
    /\ IdsOf(targets) = <<"b", "a", "c">> /\ restricted = {}
    /\ Len(dispatched) = 1
    /\ dispatched[1][1].moves[1].elementId = "b"
    /\ dispatched[1][1].moves[1].toPosition = dispatched[1][1].moves[1].fromPosition
    /\ dispatched[1][1].moves[2].toPosition.x # dispatched[1][1].moves[2].fromPosition.x
    /\ dispatched[1][1].moves[2].toPosition.y = U(10)

\* ======================================================= navigator: traversal
ReadingOrder == markerComparator = "LeftToRightTopToBottomComparator"
\* the traversal started from an accepted marker
StartedAtMarker == Len(history) >= 1 /\ \E m \in AcceptedMarkers : history[1].current = <<m>>
Returns == [k \in 1..Len(history) |-> history[k].found]

\* C26 (as stated): with the reading-order comparator and N >= 1 accepted
\* markers, a traversal that starts from an accepted marker and calls next
\* (or previous) each time with the marker returned before returns N
\* different markers in its first N calls, and so every accepted marker
\* before any marker is returned a second time.
C26_Original ==
    (ReadingOrder /\ StartedAtMarker) =>
        LET N == Cardinality(AcceptedMarkers)
        IN /\ \A i, j \in 1..MinOf(Len(history), N) : i < j => Returns[i] # Returns[j]
           /\ Len(history) >= N =>
                  {Returns[k] : k \in 1..N} = {<<m>> : m \in AcceptedMarkers}

====
